---- MODULE Spec2Model ----
(***************************************************************************)
(* Session lifecycle manager of the WhatsApp HTTP bridge.                  *)
(*                                                                         *)
(* The hybrid variant (src/unnamed/part_000, lines 1-508) is modelled as a *)
(* state machine: the `sessions` object, the whatsapp-web.js clients and   *)
(* their event handlers, the Express handlers, the timers and the          *)
(* continuations of every await.  JavaScript runs each synchronous block   *)
(* to completion, so one action is one synchronous block: a handler up to  *)
(* its first await, the continuation of an await, or a timer callback.     *)
(* The transport (whatsapp-web.js) is the environment: a live client may   *)
(* emit any event at any time, and every awaited transport call may        *)
(* resolve or reject.                                                      *)
(***************************************************************************)
EXTENDS Integers, Sequences, FiniteSets, Bags, TLC

\* ------------------------------------------------------------------ bounds
\* Session ids the callers use.
Ids == {"a"}
\* Pairing challenges the transport issues.
QrPayloads == {"q1"}
\* startWhatsAppSession invocations in one behaviour.
MaxCalls == 2
\* Suspended continuations (awaits and timers) at the same time.
MaxPending == 2
\* Callers of await-pairing; each has at most one call outstanding.
Callers == {"c1"}
\* startWhatsAppSession invocations in one behaviour of the pairing specification.
MaxQrCalls == 1
\* Message events in one behaviour of the specifications that interleave them
\* with commands and other events.
MaxArrivals == 3
\* Milliseconds the clock advances in one behaviour.
MaxClock == 2
\* Message events in one behaviour of the message-buffer specification.
MaxMessages == 102

\* --------------------------------------------------------------- constants
NULL == "null"
\* `client: null` of a simulated session (no whatsapp-web.js client).
NoClient == 0
\* `qrCode: null`
NoQr == <<>>
\* setTimeout(..., 30000): the simulated session's grace delay, in seconds.
GraceDelay == 30
\* setTimeout(..., 1000): the delay before restore re-initializes, in seconds.
RestoreDelay == 1
\* setTimeout(..., 5000): the reconnect delay, in seconds.
ReconnectDelay == 5
\* messages.length > 100 / slice(-100)
MaxHistory == 100
\* attempts > 30
MaxAttempts == 30

\* `session_${Date.now()}` (line 169; src/api.js line 137).
GeneratedId(now) == "session_" \o ToString(now)
GeneratedIds == {GeneratedId(now) : now \in 0..MaxClock}
AllIds == Ids \cup GeneratedIds

Calls == 1..MaxCalls

VARIABLES
    sessions,    \* the `sessions` object: a function from the ids present to records
    calls,       \* per startWhatsAppSession invocation: its id, where it stands, its client
    pendingQr,   \* qr handlers suspended in `await qrcode.toDataURL(qr)`
    timers,      \* bag of pending setTimeout callbacks
    destroying,  \* DELETE handlers suspended in `await client.destroy()`
    pollers,     \* await-pairing calls whose setInterval is registered
    downloads,   \* message handlers suspended in `await msg.downloadMedia()`
    resp,        \* the operation of the last step and the response it sent
    removed,     \* ghost: ids a destroy-session removed and no start-session command re-created
    arrived,     \* ghost: number of message events so far
    inserted,    \* ghost: per id, the messages pushed into the current record, in push order
    age,         \* ghost: per id, seconds since the current record was created
    disk,        \* src/api.js: the ids whose credential folder exists under SESSIONS_DIR
    clock        \* Date.now()

vars == <<sessions, calls, pendingQr, timers, destroying, pollers, downloads,
          resp, removed, arrived, inserted, age, disk, clock>>

\* What the handlers of src/unnamed/part_000 that take an explicit id never touch.
aside == <<disk, clock>>

\* ------------------------------------------------------------- data model
\* qrcode.toDataURL(qr): the rendered pairing payload.
DataURL(q) == <<"data:image/png;base64", q>>

\* The synthetic challenge of a simulated session (`2@${Date.now()}...`).
TestQr == "2@test"

\* sessions[sessionId] = { client, qrCode: null, isAuthenticated: false, ... }
\* (lines 53-59).  `call` identifies the object (which invocation created
\* it): a suspended assignment `sessions[id].qrCode = await ...` and the
\* closure of a polling interval keep the object they captured, whether it
\* is still in the registry or not.
NewSession(k) ==
    [call |-> k, client |-> k, qrCode |-> NoQr, isAuthenticated |-> FALSE,
     messages |-> <<>>, connected |-> FALSE, simulated |-> FALSE]

\* The catch block's record (lines 139-146).
SimulatedSession(k) ==
    [call |-> k, client |-> NoClient, qrCode |-> NoQr, isAuthenticated |-> FALSE,
     messages |-> <<>>, connected |-> FALSE, simulated |-> TRUE]

\* if (sessions[id])
Has(id) == id \in DOMAIN sessions

\* sessions[id] = rec
Put(id, rec) == [x \in DOMAIN sessions \cup {id} |-> IF x = id THEN rec ELSE sessions[x]]

\* delete sessions[id]
Delete(id) == [x \in DOMAIN sessions \ {id} |-> sessions[x]]

\* The object created by call k (simulated or not) is the one the registry
\* holds under id.
IsInstalled(id, k, sim) ==
    /\ Has(id)
    /\ sessions[id].call = k
    /\ sessions[id].simulated = sim

NoResp == [op |-> "none", id |-> NULL, res |-> "none"]
Resp(op, id, res) == [op |-> op, id |-> id, res |-> res]

\* An event handler or a timer callback reads sessions[sessionId].x without
\* testing the record: with the id missing the access throws a TypeError
\* that no handler catches.
Fault(id) == Resp("fault", id, "TypeError")
EventResp(id) == IF Has(id) THEN NoResp ELSE Fault(id)

UnusedCall == [sid |-> NULL, pc |-> "unused", client |-> "none"]
NumCalls == Cardinality({k \in Calls : calls[k].pc # "unused"})
NumPending ==
    Cardinality(pendingQr) + Cardinality(destroying) + Cardinality(downloads)
    + BagCardinality(timers)
Timer(kind, id, k, left) == [kind |-> kind, sid |-> id, call |-> k, left |-> left]
Arm(t) == timers (+) SetToBag({t})
Disarm(t) == timers (-) SetToBag({t})

\* The record under id leaves the registry (deleted or replaced): a polling
\* closure that captured it keeps the object, with the qrCode it has.
Orphaned(id) ==
    {IF p.sid = id /\ ~p.orphan /\ Has(id)
     THEN [p EXCEPT !.orphan = TRUE, !.orphanQr = sessions[id].qrCode]
     ELSE p : p \in pollers}

\* A suspended assignment writes qrCode into an object that is no longer in
\* the registry: only the polling closures that captured it can see it.
WriteOrphan(id, k, sim, qr) ==
    {IF p.sid = id /\ p.call = k /\ p.simulated = sim /\ p.orphan
     THEN [p EXCEPT !.orphanQr = qr]
     ELSE p : p \in pollers}

Init ==
    /\ sessions = [x \in {} |-> NULL]
    /\ calls = [k \in Calls |-> UnusedCall]
    /\ pendingQr = {}
    /\ timers = EmptyBag
    /\ destroying = {}
    /\ pollers = {}
    /\ downloads = {}
    /\ resp = NoResp
    /\ removed = [id \in AllIds |-> FALSE]
    /\ arrived = 0
    /\ inserted = [id \in AllIds |-> <<>>]
    /\ age = [id \in AllIds |-> 0]
    /\ disk = {}
    /\ clock = 0

\* A start handler without the existence check of lines 171-178.
StartSessionUnchecked(id) ==
    /\ NumCalls < MaxCalls
    /\ sessions' = Put(id, NewSession(NumCalls + 1))
    /\ calls' = [calls EXCEPT ![NumCalls + 1] = [sid |-> id, pc |-> "init", client |-> "live"]]
    /\ removed' = [removed EXCEPT ![id] = FALSE]
    /\ inserted' = [inserted EXCEPT ![id] = <<>>]
    /\ age' = [age EXCEPT ![id] = 0]
    /\ resp' = Resp("start", id, "pending")
    /\ UNCHANGED <<pendingQr, timers, destroying, pollers, downloads, arrived>>
    /\ UNCHANGED aside

\* ------------------------------------------------------ start-session
\* POST /sessions/start (lines 167-196), through the synchronous part of
\* startWhatsAppSession (lines 31-59, 135-150): with the id taken it answers
\* `existing`; otherwise `new Client` either succeeds (the record of line 53
\* is stored and `await client.initialize()` suspends the handler) or throws
\* (the catch stores the simulated record and suspends in toDataURL).
StartSession(id) ==
    IF Has(id)
    THEN /\ resp' = Resp("start", id, "existing")
         /\ UNCHANGED <<sessions, calls, pendingQr, timers, destroying, pollers,
                        downloads, removed, arrived, inserted, age,
                        aside>>
    ELSE /\ NumCalls < MaxCalls
         /\ \E throws \in BOOLEAN :
              LET k == NumCalls + 1 IN
              /\ sessions' = Put(id, IF throws THEN SimulatedSession(k) ELSE NewSession(k))
              /\ calls' = [calls EXCEPT ![k] =
                    [sid |-> id,
                     pc |-> IF throws THEN "fallback" ELSE "init",
                     client |-> IF throws THEN "none" ELSE "live"]]
         /\ removed' = [removed EXCEPT ![id] = FALSE]
         /\ inserted' = [inserted EXCEPT ![id] = <<>>]
         /\ age' = [age EXCEPT ![id] = 0]
         /\ resp' = Resp("start", id, "pending")
         /\ UNCHANGED <<pendingQr, timers, destroying, pollers, downloads, arrived,
                        aside>>

\* POST /sessions/start without a sessionId: the id is made from the clock
\* (line 169) and the handler goes on as for an explicit id.
StartSessionAuto == StartSession(GeneratedId(clock))

\* The clock advances by a millisecond.
ClockTick ==
    /\ clock < MaxClock
    /\ clock' = clock + 1
    /\ resp' = NoResp
    /\ UNCHANGED <<sessions, calls, pendingQr, timers, destroying, pollers,
                   downloads, removed, arrived, inserted, age, disk>>

\* `await client.initialize()` resolves (line 131): startWhatsAppSession
\* returns the client and the handler answers success (lines 182-187).
InitResolve(k) ==
    /\ calls[k].pc = "init"
    /\ calls' = [calls EXCEPT ![k].pc = "done"]
    /\ resp' = Resp("started", calls[k].sid, "created")
    /\ UNCHANGED <<sessions, pendingQr, timers, destroying, pollers, downloads,
                   removed, arrived, inserted, age>>
    /\ UNCHANGED aside

\* `await client.initialize()` rejects: the catch block (lines 135-150)
\* stores a simulated record under the id, whatever the registry holds there,
\* and suspends in `await qrcode.toDataURL(testQR)`.
InitReject(k) ==
    LET id == calls[k].sid IN
    /\ calls[k].pc = "init"
    /\ sessions' = Put(id, SimulatedSession(k))
    /\ calls' = [calls EXCEPT ![k].pc = "fallback", ![k].client = "dead"]
    /\ pollers' = Orphaned(id)
    /\ inserted' = [inserted EXCEPT ![id] = <<>>]
    /\ age' = [age EXCEPT ![id] = 0]
    /\ resp' = NoResp
    /\ UNCHANGED <<pendingQr, timers, destroying, downloads, removed, arrived>>
    /\ UNCHANGED aside

\* The fallback's toDataURL resolves.  Line 150 writes qrCode into the object
\* captured before the await; line 151 reads sessions[sessionId] again and
\* throws when the id is gone (the handler's catch answers 500 and no timer
\* is armed); otherwise the grace timer is armed (line 154) and the handler
\* answers success.
FallbackQrDone(k) ==
    LET id == calls[k].sid IN
    /\ calls[k].pc = "fallback"
    /\ Has(id) => NumPending < MaxPending
    /\ calls' = [calls EXCEPT ![k].pc = "done"]
    /\ sessions' = IF IsInstalled(id, k, TRUE)
                   THEN [sessions EXCEPT ![id].qrCode = DataURL(TestQr)]
                   ELSE sessions
    /\ pollers' = IF IsInstalled(id, k, TRUE)
                  THEN pollers
                  ELSE WriteOrphan(id, k, TRUE, DataURL(TestQr))
    /\ timers' = IF Has(id) THEN Arm(Timer("grace", id, k, GraceDelay)) ELSE timers
    /\ resp' = IF Has(id)
               THEN Resp("started", id, "created")
               ELSE Resp("started", id, "error")
    /\ UNCHANGED <<pendingQr, destroying, downloads, removed, arrived, inserted, age>>
    /\ UNCHANGED aside

\* A grace callback that sets isAuthenticated and leaves connected alone.
GraceFireAuthOnly(t) ==
    /\ BagIn(t, timers)
    /\ t.kind = "grace"
    /\ timers' = Disarm(t)
    /\ sessions' = IF Has(t.sid) /\ sessions[t.sid].simulated
                   THEN [sessions EXCEPT ![t.sid].isAuthenticated = TRUE]
                   ELSE sessions
    /\ resp' = NoResp
    /\ UNCHANGED <<calls, pendingQr, destroying, pollers, downloads, removed,
                   arrived, inserted, age>>
    /\ UNCHANGED aside

\* The grace timer's callback (lines 154-160).
GraceFire(t) ==
    /\ BagIn(t, timers)
    /\ t.kind = "grace"
    /\ timers' = Disarm(t)
    /\ sessions' = IF Has(t.sid) /\ sessions[t.sid].simulated
                   THEN [sessions EXCEPT ![t.sid].isAuthenticated = TRUE,
                                         ![t.sid].connected = TRUE]
                   ELSE sessions
    /\ resp' = NoResp
    /\ UNCHANGED <<calls, pendingQr, destroying, pollers, downloads, removed,
                   arrived, inserted, age>>
    /\ UNCHANGED aside

\* ------------------------------------------------------ transport events
\* The client of call k was initialized and has not been torn down.
Live(k) == calls[k].client = "live"

\* client.on('qr') (lines 61-65): sessions[sessionId] is read before the
\* await (a missing id throws there) and the handler suspends in toDataURL.
OnQr(k, q) ==
    LET id == calls[k].sid IN
    /\ Live(k)
    /\ Has(id) => NumPending < MaxPending
    /\ pendingQr' = IF Has(id)
                    THEN pendingQr \cup {[sid |-> id, call |-> sessions[id].call,
                                          simulated |-> sessions[id].simulated, qr |-> q]}
                    ELSE pendingQr
    /\ resp' = EventResp(id)
    /\ UNCHANGED <<sessions, calls, timers, destroying, pollers, downloads,
                   removed, arrived, inserted, age>>
    /\ UNCHANGED aside

\* The qr handler's toDataURL resolves: qrCode is written into the captured
\* object (line 63).  qrRaw (line 64) is read by no handler and is left out.
QrDone(p) ==
    /\ p \in pendingQr
    /\ pendingQr' = pendingQr \ {p}
    /\ sessions' = IF IsInstalled(p.sid, p.call, p.simulated)
                   THEN [sessions EXCEPT ![p.sid].qrCode = DataURL(p.qr)]
                   ELSE sessions
    /\ pollers' = IF IsInstalled(p.sid, p.call, p.simulated)
                  THEN pollers
                  ELSE WriteOrphan(p.sid, p.call, p.simulated, DataURL(p.qr))
    /\ resp' = NoResp
    /\ UNCHANGED <<calls, timers, destroying, downloads, removed, arrived, inserted, age>>
    /\ UNCHANGED aside

\* client.on('ready') (lines 67-72); a missing id throws and changes nothing.
OnReady(k) ==
    LET id == calls[k].sid IN
    /\ Live(k)
    /\ sessions' = IF Has(id)
                   THEN [sessions EXCEPT ![id].isAuthenticated = TRUE,
                                         ![id].connected = TRUE,
                                         ![id].qrCode = NoQr]
                   ELSE sessions
    /\ resp' = EventResp(id)
    /\ UNCHANGED <<calls, pendingQr, timers, destroying, pollers, downloads,
                   removed, arrived, inserted, age>>
    /\ UNCHANGED aside

\* client.on('authenticated') (lines 74-77).
OnAuthenticated(k) ==
    LET id == calls[k].sid IN
    /\ Live(k)
    /\ sessions' = IF Has(id)
                   THEN [sessions EXCEPT ![id].isAuthenticated = TRUE]
                   ELSE sessions
    /\ resp' = EventResp(id)
    /\ UNCHANGED <<calls, pendingQr, timers, destroying, pollers, downloads,
                   removed, arrived, inserted, age>>
    /\ UNCHANGED aside

\* A disconnected handler that clears the authenticated flag and leaves
\* `connected` as it was.
OnDisconnectedKeepsConnected(k) ==
    LET id == calls[k].sid IN
    /\ Live(k)
    /\ Has(id) => NumPending < MaxPending
    /\ sessions' = IF Has(id)
                   THEN [sessions EXCEPT ![id].isAuthenticated = FALSE]
                   ELSE sessions
    /\ timers' = IF Has(id) THEN Arm(Timer("reconnect", id, k, ReconnectDelay)) ELSE timers
    /\ resp' = EventResp(id)
    /\ UNCHANGED <<calls, pendingQr, destroying, pollers, downloads, removed,
                   arrived, inserted, age>>
    /\ UNCHANGED aside

\* client.on('disconnected') (lines 116-128): with the id missing the first
\* assignment throws and no timer is armed.
OnDisconnected(k) ==
    LET id == calls[k].sid IN
    /\ Live(k)
    /\ Has(id) => NumPending < MaxPending
    /\ sessions' = IF Has(id)
                   THEN [sessions EXCEPT ![id].connected = FALSE,
                                         ![id].isAuthenticated = FALSE]
                   ELSE sessions
    /\ timers' = IF Has(id) THEN Arm(Timer("reconnect", id, k, ReconnectDelay)) ELSE timers
    /\ resp' = EventResp(id)
    /\ UNCHANGED <<calls, pendingQr, destroying, pollers, downloads, removed,
                   arrived, inserted, age>>
    /\ UNCHANGED aside

\* The reconnect timer's callback (lines 122-127): client.initialize() when
\* the id is present.
ReconnectFire(t) ==
    /\ BagIn(t, timers)
    /\ t.kind = "reconnect"
    /\ timers' = Disarm(t)
    /\ calls' = IF Has(t.sid)
                THEN [calls EXCEPT ![t.call].client = "live"]
                ELSE calls
    /\ resp' = NoResp
    /\ UNCHANGED <<sessions, pendingQr, destroying, pollers, downloads, removed,
                   arrived, inserted, age>>
    /\ UNCHANGED aside

\* ------------------------------------------------------ message buffer
\* messages.push(messageData); if (length > 100) messages = messages.slice(-100)
\* (lines 109-113; the same in src/api.js 124-129 and in lines 604-609).
SliceLast(s, n) == IF Len(s) > n THEN SubSeq(s, Len(s) - n + 1, Len(s)) ELSE s

\* A buffer that slices with slice(0, 100): it keeps the oldest entries.
PushMessageKeepOldest(msgs, m) ==
    IF Len(Append(msgs, m)) > MaxHistory
    THEN SubSeq(Append(msgs, m), 1, MaxHistory)
    ELSE Append(msgs, m)

PushMessage(msgs, m) ==
    IF Len(Append(msgs, m)) > MaxHistory
    THEN SliceLast(Append(msgs, m), MaxHistory)
    ELSE Append(msgs, m)

\* The tail of the message handler (lines 105-113): a missing id throws.
Pushed(id, m) ==
    IF Has(id)
    THEN [sessions EXCEPT ![id].messages = PushMessage(sessions[id].messages, m)]
    ELSE sessions

PushedHistory(id, m) ==
    IF Has(id) THEN [inserted EXCEPT ![id] = Append(inserted[id], m)] ELSE inserted

\* client.on('message') (lines 79-114): the message is numbered by arrival;
\* with media the handler suspends in downloadMedia, otherwise it pushes.
OnMessage(k, hasMedia) ==
    LET id == calls[k].sid
        m == arrived + 1
    IN
    /\ Live(k)
    /\ hasMedia => NumPending < MaxPending
    /\ arrived' = m
    /\ IF hasMedia
       THEN /\ downloads' = downloads \cup {[sid |-> id, msg |-> m]}
            /\ UNCHANGED <<sessions, inserted>>
       ELSE /\ sessions' = Pushed(id, m)
            /\ inserted' = PushedHistory(id, m)
            /\ UNCHANGED downloads
    /\ resp' = IF hasMedia THEN NoResp ELSE EventResp(id)
    /\ UNCHANGED <<calls, pendingQr, timers, destroying, pollers, removed, age>>
    /\ UNCHANGED aside

\* downloadMedia settles (resolved or rejected, lines 93-103) and the
\* handler pushes the message.
MediaDone(d) ==
    /\ d \in downloads
    /\ downloads' = downloads \ {d}
    /\ sessions' = Pushed(d.sid, d.msg)
    /\ inserted' = PushedHistory(d.sid, d.msg)
    /\ resp' = EventResp(d.sid)
    /\ UNCHANGED <<calls, pendingQr, timers, destroying, pollers, removed, arrived, age>>
    /\ UNCHANGED aside

\* ------------------------------------------------------ destroy-session
\* DELETE /sessions/:id (lines 446-463) up to its await: 404 for a missing
\* id; with a client it suspends in `await client.destroy()`; without one it
\* deletes at once.
DestroySession(id) ==
    IF ~Has(id)
    THEN /\ resp' = Resp("destroy", id, "NotFound")
         /\ UNCHANGED <<sessions, calls, pendingQr, timers, destroying, pollers,
                        downloads, removed, arrived, inserted, age,
                        aside>>
    ELSE IF sessions[id].client # NoClient
    THEN /\ NumPending < MaxPending
         /\ destroying' = destroying \cup {[sid |-> id, call |-> sessions[id].client]}
         /\ resp' = Resp("destroy", id, "pending")
         /\ UNCHANGED <<sessions, calls, pendingQr, timers, pollers, downloads,
                        removed, arrived, inserted, age,
                        aside>>
    ELSE /\ sessions' = Delete(id)
         /\ pollers' = Orphaned(id)
         /\ removed' = [removed EXCEPT ![id] = TRUE]
         /\ resp' = Resp("destroyed", id, "ok")
         /\ UNCHANGED <<calls, pendingQr, timers, destroying, downloads, arrived,
                        inserted, age,
                        aside>>

\* `await client.destroy()` settles: resolved, the id is deleted and the
\* handler answers success; rejected, the catch answers 500 and the id stays.
DestroyDone(d, ok) ==
    /\ d \in destroying
    /\ destroying' = destroying \ {d}
    /\ IF ok
       THEN /\ sessions' = Delete(d.sid)
            /\ pollers' = Orphaned(d.sid)
            /\ removed' = [removed EXCEPT ![d.sid] = TRUE]
            /\ calls' = [calls EXCEPT ![d.call].client = "dead"]
            /\ resp' = Resp("destroyed", d.sid, "ok")
       ELSE /\ resp' = Resp("destroyed", d.sid, "error")
            /\ UNCHANGED <<sessions, pollers, removed, calls>>
    /\ UNCHANGED <<pendingQr, timers, downloads, arrived, inserted, age>>
    /\ UNCHANGED aside

\* ------------------------------------------------------ send-text, status
\* POST /sessions/:id/send-message (lines 261-310).  `sent`: the handler
\* reached client.sendMessage (the transport send was invoked).
\* A send handler that validates the body before it looks up the id.
SendTextResultBodyFirst(id, valid) ==
    IF ~valid THEN "BadRequest"
    ELSE IF ~Has(id) THEN "NotFound"
    ELSE IF sessions[id].simulated THEN "simulated"
    ELSE IF ~sessions[id].isAuthenticated THEN "NotAuthenticated"
    ELSE IF sessions[id].client = NoClient THEN "NoClient"
    ELSE "sent"

SendTextResult(id, valid) ==
    IF ~Has(id) THEN "NotFound"
    ELSE IF ~valid THEN "BadRequest"
    ELSE IF sessions[id].simulated THEN "simulated"
    ELSE IF ~sessions[id].isAuthenticated THEN "NotAuthenticated"
    ELSE IF sessions[id].client = NoClient THEN "NoClient"
    ELSE "sent"

SendText(id, valid) ==
    /\ resp' = Resp("send", id, SendTextResult(id, valid))
    /\ UNCHANGED <<sessions, calls, pendingQr, timers, destroying, pollers,
                   downloads, removed, arrived, inserted, age>>
    /\ UNCHANGED aside

\* GET /sessions/:id/status (lines 389-408): the `status` field.
StatusResult(id) ==
    IF ~Has(id) THEN "NotFound"
    ELSE IF sessions[id].isAuthenticated THEN "authenticated"
    ELSE IF sessions[id].qrCode # NoQr THEN "waiting_qr"
    ELSE "connecting"

GetStatus(id) ==
    /\ resp' = Resp("status", id, StatusResult(id))
    /\ UNCHANGED <<sessions, calls, pendingQr, timers, destroying, pollers,
                   downloads, removed, arrived, inserted, age>>
    /\ UNCHANGED aside

\* A pairing handler that tests the payload before the authenticated flag.
PairingResultPayloadFirst(id) ==
    IF ~Has(id) THEN "NotFound"
    ELSE IF sessions[id].qrCode # NoQr THEN "waiting_qr"
    ELSE IF sessions[id].isAuthenticated THEN "authenticated"
    ELSE "polling"

\* ------------------------------------------------------ await-pairing
\* GET /sessions/:id/qr (lines 213-258), the synchronous part.
PairingResult(id) ==
    IF ~Has(id) THEN "NotFound"
    ELSE IF sessions[id].isAuthenticated THEN "authenticated"
    ELSE IF sessions[id].qrCode # NoQr THEN "waiting_qr"
    ELSE "polling"

\* `polling`: setInterval(checkQR, 1000) is registered; its closure holds
\* the session object and the attempts counter.
AwaitPairing(c, id) ==
    /\ \A p \in pollers : p.caller # c
    /\ pollers' = IF PairingResult(id) = "polling"
                  THEN pollers \cup {[caller |-> c, sid |-> id, call |-> sessions[id].call,
                                      simulated |-> sessions[id].simulated,
                                      attempts |-> 0, orphan |-> FALSE,
                                      orphanQr |-> NoQr]}
                  ELSE pollers
    /\ resp' = Resp("qr", id, PairingResult(id))
    /\ UNCHANGED <<sessions, calls, pendingQr, timers, destroying, downloads,
                   removed, arrived, inserted, age>>
    /\ UNCHANGED aside

\* session.qrCode as the interval's closure reads it.
PolledQr(p) == IF p.orphan THEN p.orphanQr ELSE sessions[p.sid].qrCode

\* One run of the interval callback (lines 238-256): answer with the payload
\* when there is one; count the attempt; answer `generating` past 30
\* attempts.  Either answer clears the interval.
PollResult(p) ==
    IF PolledQr(p) # NoQr
    THEN IF p.attempts + 1 > MaxAttempts THEN "waiting_qr+generating" ELSE "waiting_qr"
    ELSE IF p.attempts + 1 > MaxAttempts THEN "generating" ELSE "none"

PollTick(p) ==
    /\ p \in pollers
    /\ pollers' = IF PollResult(p) = "none"
                  THEN (pollers \ {p}) \cup {[p EXCEPT !.attempts = p.attempts + 1]}
                  ELSE pollers \ {p}
    /\ resp' = Resp("poll", p.sid, PollResult(p))
    /\ UNCHANGED <<sessions, calls, pendingQr, timers, destroying, downloads,
                   removed, arrived, inserted, age>>
    /\ UNCHANGED aside

\* ------------------------------------------------------ send-media, messages
\* POST /sessions/:id/send-media (lines 313-346): no transport call is made;
\* an authenticated real session is answered 501.
SendMediaResult(id, valid) ==
    IF ~Has(id) THEN "NotFound"
    ELSE IF ~valid THEN "BadRequest"
    ELSE IF sessions[id].simulated THEN "simulated"
    ELSE IF ~sessions[id].isAuthenticated THEN "NotAuthenticated"
    ELSE "NotSupported"

SendMedia(id, valid) ==
    /\ resp' = Resp("media", id, SendMediaResult(id, valid))
    /\ UNCHANGED <<sessions, calls, pendingQr, timers, destroying, pollers,
                   downloads, removed, arrived, inserted, age, aside>>

\* The two example entries 'sim_1' and 'sim_2' (lines 358-377).
SimMessages == <<-1, -2>>

\* GET /sessions/:id/messages (lines 349-386): a simulated session with an
\* empty buffer is given the two example entries before the answer.
GetMessages(id) ==
    LET fill == Has(id) /\ sessions[id].simulated /\ sessions[id].messages = <<>> IN
    /\ sessions' = IF fill THEN [sessions EXCEPT ![id].messages = SimMessages] ELSE sessions
    /\ inserted' = IF fill THEN [inserted EXCEPT ![id] = SimMessages] ELSE inserted
    /\ resp' = Resp("messages", id, IF Has(id) THEN "ok" ELSE "NotFound")
    /\ UNCHANGED <<calls, pendingQr, timers, destroying, pollers, downloads,
                   removed, arrived, age, aside>>

\* ------------------------------------------------------ restore-session
\* POST /sessions/:id/restore (lines 411-443): 404 for a missing id;
\* otherwise the three flags are reset (messages are not touched) and, with
\* a client, client.destroy() is called without await and a timer is armed
\* to re-initialize.
RestoreSession(id) ==
    IF ~Has(id)
    THEN /\ resp' = Resp("restore", id, "NotFound")
         /\ UNCHANGED <<sessions, calls, pendingQr, timers, destroying, pollers,
                        downloads, removed, arrived, inserted, age, aside>>
    ELSE LET k == sessions[id].client IN
         /\ k # NoClient => NumPending < MaxPending
         /\ sessions' = [sessions EXCEPT ![id].isAuthenticated = FALSE,
                                         ![id].qrCode = NoQr,
                                         ![id].connected = FALSE]
         /\ calls' = IF k # NoClient THEN [calls EXCEPT ![k].client = "dead"] ELSE calls
         /\ timers' = IF k # NoClient
                      THEN Arm(Timer("restore", id, k, RestoreDelay))
                      ELSE timers
         /\ resp' = Resp("restore", id, "ok")
         /\ UNCHANGED <<pendingQr, destroying, pollers, downloads, removed, arrived,
                        inserted, age, aside>>

\* The restore timer's callback (lines 427-429):
\* sessions[sessionId].client.initialize(), which throws when the id is gone
\* or its record has no client.
RestoreFire(t) ==
    /\ BagIn(t, timers)
    /\ t.kind = "restore"
    /\ timers' = Disarm(t)
    /\ calls' = IF Has(t.sid) /\ sessions[t.sid].client # NoClient
                THEN [calls EXCEPT ![sessions[t.sid].client].client = "live"]
                ELSE calls
    /\ resp' = IF Has(t.sid) /\ sessions[t.sid].client # NoClient
               THEN NoResp
               ELSE Fault(t.sid)
    /\ UNCHANGED <<sessions, pendingQr, destroying, pollers, downloads, removed,
                   arrived, inserted, age, aside>>

\* ---------------------------------------------------------------- time
\* One second passes.  Timers are wall-clock: a due timer's callback runs
\* before the next second, and a local computation (toDataURL) finishes
\* within the second it started in.
Tick ==
    /\ \A t \in BagToSet(timers) : t.left > 0
    /\ \A k \in Calls : calls[k].pc # "fallback"
    /\ timers' = [t \in {[u EXCEPT !.left = u.left - 1] : u \in BagToSet(timers)} |->
                    timers[[t EXCEPT !.left = t.left + 1]]]
    /\ age' = [id \in AllIds |->
                 IF Has(id) /\ age[id] <= GraceDelay THEN age[id] + 1 ELSE age[id]]
    /\ resp' = NoResp
    /\ UNCHANGED <<sessions, calls, pendingQr, destroying, pollers, downloads,
                   removed, arrived, inserted>>
    /\ UNCHANGED aside

\* ============================================================ src/api.js
\* The Baileys server.  Its registry, startWhatsAppSession invocations,
\* pollers and responses are held in the same variables; its records have
\* the fields of lines 143-148 and the `sock` that line 152 adds (here
\* `client`: NoClient until it is assigned, then the number of the
\* startWhatsAppSession invocation that made the socket).
ApiSession(k) ==
    [call |-> k, client |-> NoClient, qrCode |-> NoQr, isAuthenticated |-> FALSE,
     messages |-> <<>>, user |-> NULL]

\* Buffer.from(qr).toString('base64') behind the data-URL prefix (lines 55-57).
ApiDataURL(q) == <<"data:image/png;base64", <<"base64", q>>>>

\* POST /sessions/start (lines 136-152) up to `await startWhatsAppSession`:
\* 400 for an id in the registry; otherwise the record is stored and the
\* handler suspends (pc "start") in the awaits of lines 28-30.
ApiStartSession(id) ==
    IF Has(id)
    THEN /\ resp' = Resp("start", id, "existing")
         /\ UNCHANGED <<sessions, calls, pendingQr, timers, destroying, pollers,
                        downloads, removed, arrived, inserted, age, aside>>
    ELSE /\ NumCalls < MaxCalls
         /\ sessions' = Put(id, ApiSession(NumCalls + 1))
         /\ calls' = [calls EXCEPT ![NumCalls + 1] =
                         [sid |-> id, pc |-> "start", client |-> "none"]]
         /\ removed' = [removed EXCEPT ![id] = FALSE]
         /\ inserted' = [inserted EXCEPT ![id] = <<>>]
         /\ age' = [age EXCEPT ![id] = 0]
         /\ resp' = Resp("start", id, "pending")
         /\ UNCHANGED <<pendingQr, timers, destroying, pollers, downloads, arrived,
                        aside>>

\* What the awaiting caller does when startWhatsAppSession has returned the
\* socket of invocation k: the start handler assigns `sock` (line 152), the
\* restore handler assigns `sock` and resets the pairing state (lines
\* 347-349); with the id gone either assignment throws, and the start
\* handler's catch deletes the id (line 161).  A reconnection (line 75) has
\* no caller.
ApiResumed(k) ==
    LET id == calls[k].sid IN
    IF ~Has(id) \/ calls[k].pc = "reconnect" THEN sessions
    ELSE IF calls[k].pc = "start" THEN [sessions EXCEPT ![id].client = k]
    ELSE [sessions EXCEPT ![id].client = k, ![id].isAuthenticated = FALSE,
                          ![id].qrCode = NoQr]

\* A start handler whose catch answers 500 and leaves the record in the
\* registry.
ApiSockMadeKeepsRecord(k, ok) ==
    LET id == calls[k].sid
        by == calls[k].pc
    IN
    /\ by \in {"start", "restore", "reconnect"}
    /\ calls' = [calls EXCEPT ![k].pc = "done",
                              ![k].client = IF ok THEN "live" ELSE "none"]
    /\ disk' = IF ok THEN disk \cup {id} ELSE disk
    /\ sessions' = IF ok THEN ApiResumed(k) ELSE sessions
    /\ pollers' = pollers
    /\ resp' = IF by = "reconnect" THEN NoResp
               ELSE Resp(IF by = "start" THEN "started" ELSE "restored", id,
                         IF ok /\ Has(id) THEN "ok" ELSE "error")
    /\ UNCHANGED <<pendingQr, timers, destroying, downloads, removed, arrived,
                   inserted, age, clock>>

\* The awaits of startWhatsAppSession (lines 28-30) settle.  Resolved: the
\* credential folder exists, the socket is made with its handlers (lines
\* 32-130) and the caller resumes.  Rejected: the start handler's catch
\* deletes the id and answers 500 (lines 159-163), the restore handler's
\* catch answers 500 (line 353), a reconnection's rejection has no handler.
ApiSockMade(k, ok) ==
    LET id == calls[k].sid
        by == calls[k].pc
    IN
    /\ by \in {"start", "restore", "reconnect"}
    /\ calls' = [calls EXCEPT ![k].pc = "done",
                              ![k].client = IF ok THEN "live" ELSE "none"]
    /\ disk' = IF ok THEN disk \cup {id} ELSE disk
    /\ sessions' = IF ok THEN ApiResumed(k)
                   ELSE IF by = "start" /\ Has(id) THEN Delete(id)
                   ELSE sessions
    /\ pollers' = IF ~ok /\ by = "start" /\ Has(id) THEN Orphaned(id) ELSE pollers
    /\ resp' = IF by = "reconnect" THEN NoResp
               ELSE Resp(IF by = "start" THEN "started" ELSE "restored", id,
                         IF ok /\ Has(id) THEN "ok" ELSE "error")
    /\ UNCHANGED <<pendingQr, timers, destroying, downloads, removed, arrived,
                   inserted, age, clock>>

\* connection.update with a qr (lines 49-61); with the id gone line 59 throws.
ApiOnQr(k, q) ==
    LET id == calls[k].sid IN
    /\ Live(k)
    /\ sessions' = IF Has(id)
                   THEN [sessions EXCEPT ![id].qrCode = ApiDataURL(q),
                                         ![id].isAuthenticated = FALSE]
                   ELSE sessions
    /\ resp' = EventResp(id)
    /\ UNCHANGED <<calls, pendingQr, timers, destroying, pollers, downloads,
                   removed, arrived, inserted, age, aside>>

\* connection.update with connection 'open' (lines 63-68).
ApiOnOpen(k) ==
    LET id == calls[k].sid IN
    /\ Live(k)
    /\ sessions' = IF Has(id)
                   THEN [sessions EXCEPT ![id].isAuthenticated = TRUE,
                                         ![id].qrCode = NoQr,
                                         ![id].user = "user"]
                   ELSE sessions
    /\ resp' = EventResp(id)
    /\ UNCHANGED <<calls, pendingQr, timers, destroying, pollers, downloads,
                   removed, arrived, inserted, age, aside>>

\* messages.upsert (lines 87-130): an entry without `message` is ignored;
\* otherwise the entry is built and pushed without any await.  With the id
\* gone line 120 throws.
ApiOnMessage(k, empty) ==
    LET id == calls[k].sid
        m == arrived + 1
    IN
    /\ Live(k)
    /\ arrived' = m
    /\ sessions' = IF empty THEN sessions ELSE Pushed(id, m)
    /\ inserted' = IF empty THEN inserted ELSE PushedHistory(id, m)
    /\ resp' = IF empty THEN NoResp ELSE EventResp(id)
    /\ UNCHANGED <<calls, pendingQr, timers, destroying, pollers, downloads,
                   removed, age, aside>>

\* A close handler that forgets the credential folder on logout.
ApiOnCloseKeepsFolder(k, loggedOut) ==
    LET id == calls[k].sid IN
    /\ Live(k)
    /\ ~loggedOut => NumCalls < MaxCalls
    /\ calls' = IF loggedOut
                THEN [calls EXCEPT ![k].client = "dead"]
                ELSE [calls EXCEPT ![k].client = "dead",
                                   ![NumCalls + 1] =
                                       [sid |-> id, pc |-> "reconnect", client |-> "none"]]
    /\ sessions' = IF loggedOut /\ Has(id) THEN Delete(id) ELSE sessions
    /\ pollers' = IF loggedOut /\ Has(id) THEN Orphaned(id) ELSE pollers
    /\ resp' = Resp("close", id, IF loggedOut THEN "loggedOut" ELSE "reconnect")
    /\ UNCHANGED <<pendingQr, timers, destroying, downloads, removed, arrived,
                   inserted, age, aside>>

\* connection.update with connection 'close' (lines 70-83): the socket is
\* closed.  Any reason but loggedOut calls startWhatsAppSession(sessionId)
\* at once (a new invocation, suspended in its awaits); loggedOut deletes the
\* id and removes its credential folder.
ApiOnClose(k, loggedOut) ==
    LET id == calls[k].sid IN
    /\ Live(k)
    /\ ~loggedOut => NumCalls < MaxCalls
    /\ calls' = IF loggedOut
                THEN [calls EXCEPT ![k].client = "dead"]
                ELSE [calls EXCEPT ![k].client = "dead",
                                   ![NumCalls + 1] =
                                       [sid |-> id, pc |-> "reconnect", client |-> "none"]]
    /\ sessions' = IF loggedOut /\ Has(id) THEN Delete(id) ELSE sessions
    /\ pollers' = IF loggedOut /\ Has(id) THEN Orphaned(id) ELSE pollers
    /\ disk' = IF loggedOut THEN disk \ {id} ELSE disk
    /\ resp' = Resp("close", id, IF loggedOut THEN "loggedOut" ELSE "reconnect")
    /\ UNCHANGED <<pendingQr, timers, destroying, downloads, removed, arrived,
                   inserted, age, clock>>

\* GET /sessions/:id/qr (lines 181-220), the synchronous part: the tests of
\* lines 185-201 are those of PairingResult.
ApiAwaitPairing(c, id) ==
    /\ \A p \in pollers : p.caller # c
    /\ pollers' = IF PairingResult(id) = "polling"
                  THEN pollers \cup {[caller |-> c, sid |-> id, call |-> sessions[id].call,
                                      attempts |-> 0, orphan |-> FALSE,
                                      orphanQr |-> NoQr]}
                  ELSE pollers
    /\ resp' = Resp("qr", id, PairingResult(id))
    /\ UNCHANGED <<sessions, calls, pendingQr, timers, destroying, downloads,
                   removed, arrived, inserted, age, aside>>

\* One run of the interval callback (lines 205-218): past 30 attempts it
\* answers 408 with an error body.
ApiPollResult(p) ==
    IF PolledQr(p) # NoQr
    THEN IF p.attempts + 1 > MaxAttempts THEN "waiting_qr+timeout" ELSE "waiting_qr"
    ELSE IF p.attempts + 1 > MaxAttempts THEN "timeout" ELSE "none"

\* An interval callback that answers with the payload and forgets clearInterval.
ApiPollTickKeepsInterval(p) ==
    /\ p \in pollers
    /\ pollers' = IF ApiPollResult(p) \in {"none", "waiting_qr"}
                  THEN (pollers \ {p}) \cup {[p EXCEPT !.attempts = p.attempts + 1]}
                  ELSE pollers \ {p}
    /\ resp' = Resp("poll", p.sid, ApiPollResult(p))
    /\ UNCHANGED <<sessions, calls, pendingQr, timers, destroying, downloads,
                   removed, arrived, inserted, age, aside>>

ApiPollTick(p) ==
    /\ p \in pollers
    /\ pollers' = IF ApiPollResult(p) = "none"
                  THEN (pollers \ {p}) \cup {[p EXCEPT !.attempts = p.attempts + 1]}
                  ELSE pollers \ {p}
    /\ resp' = Resp("poll", p.sid, ApiPollResult(p))
    /\ UNCHANGED <<sessions, calls, pendingQr, timers, destroying, downloads,
                   removed, arrived, inserted, age, aside>>

\* DELETE /sessions/:id (lines 362-381).  sock.end() is synchronous, so the
\* handler runs to its answer without another handler in between: `ok`, or
\* `throws` when sock.end() throws (the catch answers 500 and the record
\* stays), or `closed` when sock.end() emits the close event, whose handler
\* (lines 70-76, no loggedOut status) calls startWhatsAppSession before the
\* id is deleted.
ApiDestroySession(id, how) ==
    IF ~Has(id)
    THEN /\ resp' = Resp("destroy", id, "NotFound")
         /\ UNCHANGED <<sessions, calls, pendingQr, timers, destroying, pollers,
                        downloads, removed, arrived, inserted, age, aside>>
    ELSE LET k == sessions[id].client IN
         /\ how # "ok" => k # NoClient /\ Live(k)
         /\ how = "closed" => NumCalls < MaxCalls
         /\ calls' = IF k = NoClient \/ how = "throws" THEN calls
                     ELSE IF how = "ok" THEN [calls EXCEPT ![k].client = "dead"]
                     ELSE [calls EXCEPT ![k].client = "dead",
                                        ![NumCalls + 1] =
                                            [sid |-> id, pc |-> "reconnect", client |-> "none"]]
         /\ sessions' = IF how = "throws" THEN sessions ELSE Delete(id)
         /\ pollers' = IF how = "throws" THEN pollers ELSE Orphaned(id)
         /\ disk' = IF how = "throws" THEN disk ELSE disk \ {id}
         /\ removed' = IF how = "throws" THEN removed ELSE [removed EXCEPT ![id] = TRUE]
         /\ resp' = Resp("destroyed", id, IF how = "throws" THEN "error" ELSE "ok")
         /\ UNCHANGED <<pendingQr, timers, destroying, downloads, arrived, inserted,
                        age, clock>>

\* POST /sessions/:id/restore (lines 334-356) up to
\* `await startWhatsAppSession`: 404 for a missing id; a stored sock is
\* ended (`ok`, `throws` or `closed` as in ApiDestroySession; `throws` is
\* answered 500 by the catch), then startWhatsAppSession is invoked and the
\* handler suspends in its awaits (pc "restore").
ApiRestoreSession(id, how) ==
    IF ~Has(id)
    THEN /\ resp' = Resp("restore", id, "NotFound")
         /\ UNCHANGED <<sessions, calls, pendingQr, timers, destroying, pollers,
                        downloads, removed, arrived, inserted, age, aside>>
    ELSE LET k == sessions[id].client
             n == NumCalls
         IN
         /\ how # "ok" => k # NoClient /\ Live(k)
         /\ how # "throws" => n + (IF how = "closed" THEN 2 ELSE 1) <= MaxCalls
         /\ calls' = IF how = "throws" THEN calls
                     ELSE IF how = "closed"
                     THEN [calls EXCEPT ![k].client = "dead",
                                        ![n + 1] = [sid |-> id, pc |-> "reconnect",
                                                    client |-> "none"],
                                        ![n + 2] = [sid |-> id, pc |-> "restore",
                                                    client |-> "none"]]
                     ELSE IF k = NoClient
                     THEN [calls EXCEPT ![n + 1] = [sid |-> id, pc |-> "restore",
                                                    client |-> "none"]]
                     ELSE [calls EXCEPT ![k].client = "dead",
                                        ![n + 1] = [sid |-> id, pc |-> "restore",
                                                    client |-> "none"]]
         /\ resp' = Resp("restore", id, IF how = "throws" THEN "error" ELSE "pending")
         /\ UNCHANGED <<sessions, pendingQr, timers, destroying, pollers, downloads,
                        removed, arrived, inserted, age, aside>>

\* ------------------------------------------------------------ behaviours
\* Start-up of a session, common to every specification.
Startup ==
    \/ \E id \in Ids : StartSession(id)
    \/ \E k \in Calls : InitResolve(k)
    \/ \E k \in Calls : InitReject(k)
    \/ \E k \in Calls : FallbackQrDone(k)

\* The registry: sessions are started and destroyed.
Next ==
    \/ Startup
    \/ \E t \in BagToSet(timers) : GraceFire(t)
    \/ \E id \in Ids : DestroySession(id)
    \/ \E d \in destroying, ok \in BOOLEAN : DestroyDone(d, ok)
    \/ \E id \in Ids, valid \in BOOLEAN : SendText(id, valid)
    \/ \E id \in Ids : GetStatus(id)

Spec == Init /\ [][Next]_vars

\* One session under its transport's events.
SessionNext ==
    \/ Startup
    \/ \E t \in BagToSet(timers) : GraceFire(t)
    \/ \E k \in Calls, q \in QrPayloads : OnQr(k, q)
    \/ \E p \in pendingQr : QrDone(p)
    \/ \E k \in Calls : OnReady(k)
    \/ \E k \in Calls : OnAuthenticated(k)
    \/ \E k \in Calls : OnDisconnected(k)
    \/ \E t \in BagToSet(timers) : ReconnectFire(t)
    \/ \E id \in Ids, valid \in BOOLEAN : SendText(id, valid)
    \/ \E id \in Ids : GetStatus(id)

SpecSession == Init /\ [][SessionNext]_vars

\* The message buffer of a started session under a stream of text messages.
RingNext ==
    \/ \E id \in Ids : StartSession(id)
    \/ \E k \in Calls : InitResolve(k)
    \/ \E k \in Calls : arrived < MaxMessages /\ OnMessage(k, FALSE)

SpecRing == Init /\ [][RingNext]_vars

\* The pairing wait: callers poll while the session pairs or is destroyed.
QrNext ==
    \/ \E id \in Ids : (Has(id) \/ NumCalls < MaxQrCalls) /\ StartSession(id)
    \/ \E k \in Calls : InitResolve(k)
    \/ \E k \in Calls : InitReject(k)
    \/ \E k \in Calls : FallbackQrDone(k)
    \/ \E k \in Calls, q \in QrPayloads : OnQr(k, q)
    \/ \E p \in pendingQr : QrDone(p)
    \/ \E k \in Calls : OnReady(k)
    \/ \E k \in Calls : OnAuthenticated(k)
    \/ \E id \in Ids : DestroySession(id)
    \/ \E d \in destroying, ok \in BOOLEAN : DestroyDone(d, ok)
    \/ \E c \in Callers, id \in Ids : AwaitPairing(c, id)
    \/ \E p \in pollers : PollTick(p)

SpecQr == Init /\ [][QrNext]_vars

\* A session with events, messages and restore-session commands.
RestoreNext ==
    \/ Startup
    \/ \E k \in Calls, q \in QrPayloads : OnQr(k, q)
    \/ \E p \in pendingQr : QrDone(p)
    \/ \E k \in Calls : OnReady(k)
    \/ \E k \in Calls : arrived < MaxArrivals /\ OnMessage(k, FALSE)
    \/ \E id \in Ids : RestoreSession(id)
    \/ \E t \in BagToSet(timers) : RestoreFire(t)

SpecRestore == Init /\ [][RestoreNext]_vars

\* Every command, on ids that are present, absent, destroyed or re-created;
\* sessions start with a client whose initialize() resolves or, when the
\* client cannot be constructed, as simulated sessions.
CommandNext ==
    \/ \E id \in Ids : StartSession(id)
    \/ \E k \in Calls : InitResolve(k)
    \/ \E k \in Calls : FallbackQrDone(k)
    \/ \E id \in Ids : DestroySession(id)
    \/ \E d \in destroying, ok \in BOOLEAN : DestroyDone(d, ok)
    \/ \E c \in Callers, id \in Ids : AwaitPairing(c, id)
    \/ \E id \in Ids, valid \in BOOLEAN : SendText(id, valid)
    \/ \E id \in Ids, valid \in BOOLEAN : SendMedia(id, valid)
    \/ \E id \in Ids : GetMessages(id)
    \/ \E id \in Ids : GetStatus(id)
    \/ \E id \in Ids : RestoreSession(id)
    \/ \E t \in BagToSet(timers) : RestoreFire(t)

SpecCommands == Init /\ [][CommandNext]_vars

\* start-session commands without an id while the clock advances.
AutoNext ==
    \/ StartSessionAuto
    \/ \E k \in Calls : InitResolve(k)
    \/ \E k \in Calls : FallbackQrDone(k)
    \/ \E id \in AllIds : GetStatus(id)
    \/ ClockTick

SpecAuto == Init /\ [][AutoNext]_vars

\* Messages with and without media on a started session.
MediaNext ==
    \/ \E id \in Ids : StartSession(id)
    \/ \E k \in Calls : InitResolve(k)
    \/ \E k \in Calls : OnReady(k)
    \/ \E k \in Calls, hasMedia \in BOOLEAN : arrived < MaxArrivals /\ OnMessage(k, hasMedia)
    \/ \E d \in downloads : MediaDone(d)

SpecMedia == Init /\ [][MediaNext]_vars

\* A session left alone while time passes.
TimedNext ==
    \/ Startup
    \/ \E t \in BagToSet(timers) : t.left = 0 /\ GraceFire(t)
    \/ Tick
    \/ \E id \in Ids, valid \in BOOLEAN : SendText(id, valid)

SpecTimed == Init /\ [][TimedNext]_vars

\* One session under its transport's events, its timers and restore-session
\* commands.
LifecycleNext ==
    \/ SessionNext
    \/ \E id \in Ids : RestoreSession(id)
    \/ \E t \in BagToSet(timers) : RestoreFire(t)

SpecLifecycle == Init /\ [][LifecycleNext]_vars

\* The same while the process and the transport run: a promise that can
\* settle settles (initialize, toDataURL), an armed timer fires, and a
\* transport that can emit a pairing payload emits one.
SpecLifecycleFair ==
    /\ Init
    /\ [][LifecycleNext]_vars
    /\ \A k \in Calls :
          /\ WF_vars(InitResolve(k) \/ InitReject(k))
          /\ WF_vars(FallbackQrDone(k))
          /\ SF_vars(\E q \in QrPayloads : OnQr(k, q))
    /\ WF_vars(\E p \in pendingQr : QrDone(p))
    /\ WF_vars(\E t \in BagToSet(timers) : GraceFire(t))
    /\ WF_vars(\E t \in BagToSet(timers) : ReconnectFire(t))
    /\ WF_vars(\E t \in BagToSet(timers) : RestoreFire(t))

\* src/api.js: sessions of the Baileys server under their sockets' events.
ApiNext ==
    \/ \E id \in Ids : ApiStartSession(id)
    \/ \E k \in Calls, ok \in BOOLEAN : ApiSockMade(k, ok)
    \/ \E k \in Calls, q \in QrPayloads : ApiOnQr(k, q)
    \/ \E k \in Calls : ApiOnOpen(k)
    \/ \E k \in Calls, empty \in BOOLEAN : arrived < MaxArrivals /\ ApiOnMessage(k, empty)
    \/ \E k \in Calls, loggedOut \in BOOLEAN : ApiOnClose(k, loggedOut)
    \/ \E id \in Ids, how \in {"ok", "throws", "closed"} : ApiDestroySession(id, how)
    \/ \E id \in Ids, how \in {"ok", "throws", "closed"} : ApiRestoreSession(id, how)

SpecApi == Init /\ [][ApiNext]_vars

\* src/api.js: the pairing wait of the Baileys server.
ApiQrNext ==
    \/ \E id \in Ids : (Has(id) \/ NumCalls < MaxQrCalls) /\ ApiStartSession(id)
    \/ \E k \in Calls, ok \in BOOLEAN : ApiSockMade(k, ok)
    \/ \E k \in Calls, q \in QrPayloads : ApiOnQr(k, q)
    \/ \E k \in Calls : ApiOnOpen(k)
    \/ \E k \in Calls, loggedOut \in BOOLEAN : ApiOnClose(k, loggedOut)
    \/ \E id \in Ids, how \in {"ok", "throws", "closed"} : ApiDestroySession(id, how)
    \/ \E c \in Callers, id \in Ids : ApiAwaitPairing(c, id)
    \/ \E p \in pollers : ApiPollTick(p)

SpecApiQr == Init /\ [][ApiQrNext]_vars

\* The pairing wait while the process runs: a registered interval's callback
\* keeps being called (setInterval, line 219).
SpecApiQrFair ==
    /\ Init
    /\ [][ApiQrNext]_vars
    /\ \A c \in Callers : WF_vars(\E p \in pollers : p.caller = c /\ ApiPollTick(p))

\* ============================================================ properties

\* C1: once destroy-session has removed an id, get-status, send-text and
\* await-pairing on it answer NotFound, and the id is not in the registry,
\* until a start-session command creates it again.
C1_DestroyedStaysNotFound ==
    \A id \in Ids :
        removed[id] =>
            /\ ~Has(id)
            /\ StatusResult(id) = "NotFound"
            /\ SendTextResult(id, TRUE) = "NotFound"
            /\ PairingResult(id) = "NotFound"

\* C2: in every reachable state an authenticated session has no pairing
\* payload.
C2_AuthenticatedHasNoPairingPayload ==
    \A id \in DOMAIN sessions :
        sessions[id].isAuthenticated => sessions[id].qrCode = NoQr

\* C3: the message buffer never holds more than 100 entries, and it holds
\* the last min(100, N) of the N messages pushed, in push order.
C3_BufferKeepsLast100 ==
    \A id \in DOMAIN sessions :
        LET buf == sessions[id].messages
            all == inserted[id]
        IN
        /\ Len(buf) <= MaxHistory
        /\ Len(buf) = (IF Len(all) < MaxHistory THEN Len(all) ELSE MaxHistory)
        /\ \A i \in 1..Len(buf) : buf[i] = all[Len(all) - Len(buf) + i]

\* C3's case: more than 100 messages were pushed and the oldest were evicted.
C3_Witness ==
    \E id \in DOMAIN sessions :
        /\ Len(inserted[id]) = MaxHistory + 2
        /\ Len(sessions[id].messages) = MaxHistory
        /\ sessions[id].messages[1] = 3

\* C4: a start-session command for an id that is in the registry answers
\* `existing` and changes neither the session nor any transport, timer or
\* suspended handler.
C4_StartExistingChangesNothing ==
    [][\A id \in Ids :
          (Has(id) /\ resp'.op = "start" /\ resp'.id = id) =>
              /\ resp'.res = "existing"
              /\ UNCHANGED <<sessions, calls, pendingQr, timers, destroying,
                             pollers, downloads>>]_vars

\* C4's case: start-session was answered `existing` for a session that had
\* left its initial state.
C4_Witness ==
    /\ resp.op = "start"
    /\ resp.res = "existing"
    /\ Has(resp.id)
    /\ sessions[resp.id].isAuthenticated
    /\ sessions[resp.id].qrCode # NoQr

\* C5: the record a start-session call stored under an id is never replaced
\* by the start-up code of another start-session call.
C5_NoForeignOverwrite ==
    [][\A id \in Ids :
          (Has(id) /\ id \in DOMAIN sessions') =>
              sessions'[id].call = sessions[id].call]_vars

\* C6: a polling tick of an await-pairing call whose session is no longer in
\* the registry answers NotFound (and so ends the polling).
C6_PollOfRemovedIsNotFound ==
    (resp.op = "poll" /\ ~Has(resp.id)) => resp.res = "NotFound"

\* C7: when a destroy-session command on an existing session has answered,
\* whether teardown succeeded or failed, the id is not in the registry.
C7_DestroyAlwaysRemoves ==
    resp.op = "destroyed" => ~Has(resp.id)

\* C8: for a non-simulated session a (well-formed) send-text reaches the
\* transport exactly when the session is connected, and answers
\* NotAuthenticated otherwise.
C8_SendOnlyWhenConnected ==
    (/\ resp.op = "send"
     /\ resp.res # "BadRequest"
     /\ Has(resp.id)
     /\ ~sessions[resp.id].simulated) =>
        IF sessions[resp.id].connected
        THEN resp.res = "sent"
        ELSE resp.res = "NotAuthenticated"

\* C9: a simulated session left alone is authenticated and connected once
\* more than the grace delay has passed since its creation, and a
\* (well-formed) send-text on a simulated session answers the synthesized
\* success.
C9_SimulatedConnectsAfterGrace ==
    \A id \in DOMAIN sessions :
        sessions[id].simulated =>
            /\ age[id] > GraceDelay =>
                   sessions[id].isAuthenticated /\ sessions[id].connected
            /\ (resp.op = "send" /\ resp.id = id /\ resp.res # "BadRequest") =>
                   resp.res = "simulated"

\* C9's case: the grace delay has passed and send-text was answered.
C9_Witness ==
    \E id \in DOMAIN sessions :
        /\ sessions[id].simulated
        /\ age[id] > GraceDelay
        /\ sessions[id].connected
        /\ resp = Resp("send", id, "simulated")

\* C10: await-pairing on an authenticated session answers `authenticated`
\* in the same step and registers no polling interval.
C10_AuthenticatedAnswersAtOnce ==
    [][\A id \in Ids :
          (/\ Has(id)
           /\ sessions[id].isAuthenticated
           /\ resp'.op = "qr"
           /\ resp'.id = id) =>
              /\ resp'.res = "authenticated"
              /\ pollers' = pollers]_vars

\* C10's case: await-pairing was answered `authenticated`.
C10_Witness ==
    /\ resp.op = "qr"
    /\ resp.res = "authenticated"
    /\ Has(resp.id)
    /\ sessions[resp.id].isAuthenticated
    /\ pollers = {}

\* C11: a polling tick that ends an await-pairing call answers with the
\* pairing payload or, on timeout, with the normal `generating` result: it
\* never answers an error.
C11_TimeoutIsStillGenerating ==
    resp.op = "poll" =>
        resp.res \in {"none", "waiting_qr", "generating", "waiting_qr+generating"}

\* C12: a registered pairing poll is eventually answered; the tick that
\* answers it unregisters its interval; and a call answered at once
\* registers none.
C12_PollingEndsAndReleases ==
    /\ \A c \in Callers :
         (\E p \in pollers : p.caller = c) ~> (\A p \in pollers : p.caller # c)
    /\ [][(resp'.op = "poll" /\ resp'.res # "none") =>
             \E p \in pollers :
                 /\ p \notin pollers'
                 /\ \A q \in pollers' : q.caller # p.caller]_vars
    /\ [][(resp'.op = "qr" /\ resp'.res # "polling") => pollers' = pollers]_vars

\* C12's case: a poll of a destroyed session ran into its timeout and was
\* answered, and no interval is left.
C12_Witness ==
    /\ resp.op = "poll"
    /\ resp.res = "timeout"
    /\ ~Has(resp.id)
    /\ pollers = {}

\* C13: when restore-session has answered ok, the session is
\* unauthenticated, has no pairing payload and has an empty message buffer.
C13_RestoreResetsPairingAndMessages ==
    (resp.op = "restore" /\ resp.res = "ok") =>
        /\ Has(resp.id)
        /\ ~sessions[resp.id].isAuthenticated
        /\ sessions[resp.id].qrCode = NoQr
        /\ sessions[resp.id].messages = <<>>

\* C14: an invocation of startWhatsAppSession (a transport
\* re-initialization) on account of a disconnect is made only by a reconnect
\* timer that has run its full delay.
C14_ReconnectWaitsForDelay ==
    [][(\E k \in Calls : calls[k].pc = "unused" /\ calls'[k].pc = "reconnect") =>
          \E t \in BagToSet(timers) :
              /\ t.kind = "reconnect"
              /\ t.left = 0
              /\ timers' = Disarm(t)]_vars

\* C15: a close event with the loggedOut reason leaves the id out of the
\* registry, removes its credential folder and starts no reconnection; a
\* close event with any other reason starts one reconnection and leaves the
\* registry and the credential folders as they were.
C15_LogoutRemovesOtherReconnects ==
    [][resp'.op = "close" =>
          IF resp'.res = "loggedOut"
          THEN /\ resp'.id \notin DOMAIN sessions'
               /\ resp'.id \notin disk'
               /\ \A k \in Calls : calls[k].pc = "unused" => calls'[k].pc = "unused"
          ELSE /\ sessions' = sessions
               /\ disk' = disk
               /\ Cardinality({k \in Calls : calls[k].pc = "unused"
                                             /\ calls'[k] = [sid |-> resp'.id, pc |-> "reconnect",
                                                             client |-> "none"]}) = 1]_vars

\* C15's case: a logout removed a session that held messages and had its
\* credential folder.
C15_Witness ==
    /\ resp.op = "close"
    /\ resp.res = "loggedOut"
    /\ ~Has(resp.id)
    /\ inserted[resp.id] # <<>>
    /\ resp.id \notin disk

\* C16: a command (await-pairing, send-text, send-media, get-messages,
\* get-status, restore-session, destroy-session) for an id that is not in
\* the registry answers NotFound, whatever its body, and changes nothing.
C16_AbsentIdIsNotFound ==
    [][(/\ resp'.op \in {"qr", "send", "media", "messages", "status", "restore", "destroy"}
        /\ ~Has(resp'.id)) =>
          /\ resp'.res = "NotFound"
          /\ UNCHANGED <<sessions, calls, pendingQr, timers, destroying, pollers,
                         downloads, disk>>]_vars

\* C16's case: a send-media for a destroyed id was answered NotFound.
C16_Witness ==
    /\ resp = Resp("media", resp.id, "NotFound")
    /\ resp.id \in Ids
    /\ removed[resp.id]
    /\ ~Has(resp.id)

\* C17: every start-session command without an id creates a session: it is
\* never answered with a session that exists already.
C17_GeneratedIdsAreFresh ==
    (resp.op = "start" /\ resp.id \in GeneratedIds) => resp.res # "existing"

\* C18: the message buffer of a session changes only when the session is
\* authenticated (Authenticated or Connected).
C18_MessagesOnlyWhenAuthenticated ==
    [][\A id \in DOMAIN sessions :
          (/\ id \in DOMAIN sessions'
           /\ sessions'[id].call = sessions[id].call
           /\ sessions'[id].messages # sessions[id].messages) =>
              sessions[id].isAuthenticated]_vars

\* C19: when a grace or reconnect timer fires whose session is gone, or
\* whose id now holds the record of another start-session call, the step
\* changes no session and re-initializes no client.
C19_StaleTimerHasNoEffect ==
    [][\A t \in BagToSet(timers) :
          (/\ t.kind \in {"grace", "reconnect"}
           /\ timers' = Disarm(t)
           /\ (~Has(t.sid) \/ sessions[t.sid].call # t.call)) =>
              /\ sessions' = sessions
              /\ calls' = calls]_vars

\* C20: the entries of a message buffer are in the order in which their
\* message events arrived (messages are numbered by arrival).
C20_BufferInArrivalOrder ==
    \A id \in DOMAIN sessions :
        \A i, j \in 1..Len(sessions[id].messages) :
            i < j => sessions[id].messages[i] < sessions[id].messages[j]

\* C21: get-messages changes no session: it leaves the buffer and every
\* other field of every session as they were.
C21_GetMessagesIsPureRead ==
    [][resp'.op = "messages" => sessions' = sessions]_vars

\* C22: a waiting await-pairing call is answered by its 30th poll at the
\* latest: no registered wait has run 30 polls and is still unanswered.
C22_AtMostThirtyPolls ==
    \A p \in pollers : p.attempts < MaxAttempts

\* C23: an await-pairing call is answered once: no run of the interval
\* callback sends both the payload answer and the timeout answer.
C23_OneAnswerPerCall ==
    resp.op = "poll" => resp.res # "waiting_qr+timeout"

\* C24: an event or a timer callback of a session that is no longer in the
\* registry completes without a fault: no handler run ends in a TypeError
\* on a missing session record.
C24_LateEventIsIgnored ==
    resp.op # "fault"

\* C25: an id in the registry has at most one open transport and an id that
\* is not in the registry has none.
C25_OneTransportPerSession ==
    \A id \in Ids :
        Cardinality({k \in Calls : calls[k].sid = id /\ Live(k)})
            <= (IF Has(id) THEN 1 ELSE 0)

\* C26: the sock stored in a session is the most recently opened transport
\* of that id: no socket made after the stored one is open for it.
C26_SockIsNewestTransport ==
    \A id \in DOMAIN sessions :
        sessions[id].client # NoClient =>
            ~\E k \in Calls : /\ k > sessions[id].client
                              /\ calls[k].sid = id
                              /\ Live(k)

\* C27: a connected session is authenticated, in every state the events
\* (qr, authenticated, ready, disconnected), the restore-session command and
\* the timers can reach.
C27_ConnectedImpliesAuthenticated ==
    \A id \in DOMAIN sessions :
        sessions[id].connected => sessions[id].isAuthenticated

\* C27's case: a real session is connected again while the timer of an
\* earlier disconnect or restore is still armed.
C27_Witness ==
    \E id \in DOMAIN sessions :
        /\ sessions[id].connected
        /\ ~sessions[id].simulated
        /\ \E t \in BagToSet(timers) : t.sid = id /\ t.kind \in {"reconnect", "restore"}

\* C28: a waiting await-pairing call whose session (the record it looked up,
\* still in the registry) is authenticated when the answer is produced is
\* not answered with the timeout result.
C28_NoTimeoutWhenAuthenticated ==
    [][\A p \in pollers :
          (/\ ~p.orphan
           /\ Has(p.sid)
           /\ p \notin pollers'
           /\ resp'.op = "poll"
           /\ resp'.res \in {"generating", "waiting_qr+generating"})
          => ~sessions[p.sid].isAuthenticated]_vars

\* C29: after a restore-session command was answered, the session, while it
\* stays in the registry, eventually has a pairing payload or is
\* authenticated.
C29_RestoredSessionRecovers ==
    \A id \in Ids :
        (resp = Resp("restore", id, "ok"))
            ~> (~Has(id) \/ sessions[id].qrCode # NoQr \/ sessions[id].isAuthenticated)

\* C30: when the transport start-up of a start-session command fails, the
\* command is answered with an error and its id is not in the registry
\* afterwards (a later start-session with that id finds it free).
C30_FailedStartLeavesNoRecord ==
    [][\A k \in Calls :
          (/\ calls[k].pc = "start"
           /\ calls'[k].pc = "done"
           /\ calls'[k].client = "none")
          => /\ resp' = Resp("started", calls[k].sid, "error")
             /\ calls[k].sid \notin DOMAIN sessions']_vars

\* C30's case: every startWhatsAppSession invocation for an id has failed,
\* the start command was answered with an error and the id is free.
C30_Witness ==
    \E id \in Ids :
        /\ resp = Resp("started", id, "error")
        /\ ~Has(id)
        /\ \E k \in Calls : calls[k].sid = id
        /\ \A k \in Calls : calls[k].sid = id =>
                               calls[k].pc = "done" /\ calls[k].client = "none"

====
